---- MODULE Spec2Model ----
(***************************************************************************)
(* A model of hyacinth, the HTTP client library for the Clio Manage API:   *)
(*   - the cursor pagination of Session (blocking) and AsyncSession,       *)
(*   - the ratelimit wrapper around get/post/patch/delete_resource,        *)
(*   - the document uploads (single-shot and multipart).                   *)
(* Each part has its own specification over the same variables; the        *)
(* variables a specification does not use stay at their initial value.     *)
(***************************************************************************)
EXTENDS Integers, Sequences, FiniteSets, TLC

VARIABLES
    impl,        \* "Session" (session.py) or "AsyncSession" (async_session.py)
    \* ---- pagination
    pages,       \* the server's collection: pages[u] is the envelope served at URL u
    stack,       \* the generator frames of the running traversal, innermost last
    gets,        \* the URLs of the page GETs issued so far, in order
    yielded,     \* the items handed to the consumer so far, in order
    done,        \* TRUE once the traversal has raised StopIteration
    autopaginate, \* self.autopaginate
    params,      \* the params argument of the caller
    sentparams,  \* the params handed to the transport with each GET, in order
    fault,       \* the page whose fetch goes wrong, and how
    presult,     \* what get_paginated_resource returned, or what was raised
    \* ---- request execution (the ratelimit wrapper)
    ratelimit,           \* self.ratelimit
    raise_for_status,    \* self.raise_for_status
    ratelimit_limit,     \* self.ratelimit_limit
    ratelimit_remaining, \* self.ratelimit_remaining
    method,      \* the verb of the running operation
    pc,          \* the wrapper's position
    resp,        \* the wrapper's local resp
    trail,       \* the steps the operation has taken, in order
    sleeps,      \* the durations slept, in seconds, in order
    sent,        \* how many requests went out through the authenticated transport
    s3gets,      \* how many GETs went out through a fresh unauthenticated transport
    depth,       \* how many callers wait in `resp = await self.get_resource(s3_url)`
    result,      \* what the operation returned or raised
    \* ---- document upload
    upfn,        \* the upload method that was called
    file_size,   \* the size of the document, in bytes
    upc,         \* the upload's position
    parts,       \* the (start_offset, end_offset) tuples read from the file
    document,    \* clio_document, the decoded answer to the creation POST
    part_idx,    \* the position in the multiparts list of clio_document
    posts,       \* the creation POSTs made, each with its manifest
    puts,        \* the PUTs made to storage targets, in order
    patches,     \* the finalize PATCHes made, in order
    progress,    \* how often progress_update was called
    outcome,     \* what the upload returned or raised
    \* ---- construction, URLs and the per-resource methods
    region,      \* the region argument of the constructor, a sequence of characters
    base_url,    \* self.base_url
    api_base_url, \* self.api_base_url
    token_endpoint, \* self.token_endpoint
    apc,         \* "new" before __init__ has run, "ready" after
    mpath,       \* the path of the last direct call of make_url
    made,        \* what that call returned
    cm,          \* the name of the per-resource method called last
    cargs,       \* its arguments
    opreturn,    \* what the generic operation returned to it
    calls,       \* the calls of generic operations it made
    cresult,     \* what it returned or raised
    \* ---- operations running at the same time on one client
    ops,         \* per operation: its position and the headers of its response
    seen,        \* the (limit, remaining) pair a reader saw last
    \* ---- the same operation on a Session and then on an AsyncSession
    twin,        \* what the operation of the Session did, kept for the comparison
    \* ---- the caller's query-parameter map
    held         \* the dict the caller passed as params: before the call, and now

pconf == <<autopaginate, params, fault>>
pvars == <<pages, stack, gets, yielded, done, pconf, sentparams, presult>>
cvars == <<ratelimit, raise_for_status>>
bvars == <<ratelimit_limit, ratelimit_remaining>>
xvars == <<method, pc, resp, trail, sleeps, sent, s3gets, depth, result>>
uvars == <<upfn, file_size, upc, parts, document, part_idx, posts, puts, patches, progress, outcome>>
avars == <<region, base_url, api_base_url, token_endpoint, apc, mpath, made,
           cm, cargs, opreturn, calls, cresult>>
kvars == <<ops, seen>>
tvars == <<twin>>
hvars == <<held>>
vars == <<impl, pvars, cvars, bvars, xvars, uvars, avars, kvars, tvars, hvars>>

\* What each part of the model leaves alone.
notGet == <<cvars, bvars, xvars, uvars, avars, kvars, tvars>>
notPage == <<notGet, hvars>>
notExec == <<pvars, uvars, avars, kvars, tvars, hvars>>
notPatch == <<pvars, cvars, bvars, xvars, avars, kvars, tvars>>
notUpload == <<notPatch, hvars>>
notApi == <<pvars, cvars, bvars, xvars, uvars, kvars, tvars, hvars>>
notConc == <<pvars, cvars, xvars, uvars, avars, tvars, hvars>>

Impls == {"Session", "AsyncSession"}

\* A header that the response does not carry (headers.get returns None).
Absent == "absent"

\* math.inf, the value of the rate-limit counters after construction.
Inf == "inf"

\* No response received yet.
NoResp == [status |-> 0, ct |-> Absent, body |-> "empty", limit |-> Absent,
           remaining |-> Absent, retry_after |-> Absent, location |-> Absent]

Pending == [kind |-> "pending", exc |-> "", status |-> 0]

\* No operation of the ratelimit wrapper is running.
IdleExec ==
    /\ ratelimit = FALSE /\ raise_for_status = FALSE
    /\ ratelimit_limit = Inf /\ ratelimit_remaining = Inf
    /\ method = "GET" /\ pc = "idle" /\ resp = NoResp
    /\ trail = <<>> /\ sleeps = <<>> /\ sent = 0 /\ s3gets = 0 /\ depth = 0
    /\ result = Pending

\* No operation has been started next to another, and nobody has read the budget.
IdleConc == ops = <<>> /\ seen = <<Inf, Inf>>

\* The record of an operation that has not run.
NoRun == [resp |-> NoResp, trail |-> <<>>, sleeps |-> <<>>, sent |-> 0, s3gets |-> 0,
          result |-> Pending, budget |-> <<Inf, Inf>>]

\* No operation is being compared.
IdleTwin == twin = [phase |-> 0, run |-> NoRun]

\* params=None: the caller gave no query parameters.
NoParams == [given |-> FALSE, order |-> Absent, fields |-> Absent]

\* The caller passes p as params.
Passes(p) == [before |-> p, now |-> p]

\* The caller passes no params.
IdleHeld == held = Passes(NoParams)

\* Every page is served as a well-formed envelope.
NoFault == [page |-> 0, kind |-> "healthy"]

PendingPage == [kind |-> "pending", shape |-> "", page |-> 0, exc |-> ""]

\* No page traversal is running.
IdlePage ==
    /\ pages = <<>> /\ stack = <<>> /\ gets = <<>> /\ yielded = <<>> /\ done = FALSE
    /\ autopaginate = TRUE /\ params = NoParams /\ fault = NoFault
    /\ sentparams = <<>> /\ presult = PendingPage

\* No upload is running.
IdleUpload ==
    /\ upfn = "" /\ file_size = 0 /\ upc = "idle" /\ parts = <<>>
    /\ document = [uuid |-> "", multiparts |-> <<>>]
    /\ part_idx = 0 /\ posts = <<>> /\ puts = <<>> /\ patches = <<>> /\ progress = 0
    /\ outcome = "pending"

\* No keyword options.
NoKwargs == [fields |-> Absent]

NoArgs == [id |-> "", kwargs |-> NoKwargs]

NoResult == [kind |-> "pending", value |-> "", exc |-> ""]

\* The session is built for the default region; no URL was made and no
\* per-resource method called.
IdleApi ==
    /\ region = <<>> /\ base_url = "" /\ api_base_url = <<>> /\ token_endpoint = <<>>
    /\ apc = "idle" /\ mpath = <<>> /\ made = <<>>
    /\ cm = "" /\ cargs = NoArgs /\ opreturn = "" /\ calls = <<>> /\ cresult = NoResult

\* Python's None, for URLs (a URL is the number of the page it addresses).
None == 0

(***************************************************************************)
(* Bounds.                                                                 *)
(***************************************************************************)
MaxPages == 3
MaxItems == 2
\* The cap on page GETs: the blocking traversal can go on for ever.
GetCap == MaxPages + 3

(***************************************************************************)
(* PAGINATION                                                              *)
(***************************************************************************)
\* The item at position k of the page at URL u; items are pairwise distinct.
Item(u, k) == <<u, k>>

PageData(n, u) == [k \in 1..n |-> Item(u, k)]

\* meta.paging of a last page: no "paging" key, or a paging object without "next".
LastPagings == {"absent", "no_next"}

\* An envelope {data, meta: {paging: {next}}}: paging is "next" when
\* meta.paging.next is present, and then next is the URL it holds.
Envelope(n, u, p) ==
    [data |-> PageData(n, u), paging |-> p, next |-> IF p = "next" THEN u + 1 ELSE None]

\* The chains of N pages: next present on pages 1..N-1, absent on page N.
Chains ==
    UNION { { [u \in 1..N |-> Envelope(lens[u], u, IF u < N THEN "next" ELSE last)] :
                lens \in [1..N -> 0..MaxItems], last \in LastPagings } :
            N \in 1..MaxPages }

NPages == Len(pages)

RECURSIVE ConcatData(_)
ConcatData(u) == IF u > NPages THEN <<>> ELSE pages[u].data \o ConcatData(u + 1)

\* The concatenation of all pages' data arrays in original order.
AllItems == ConcatData(1)

IsPrefix(s, t) == Len(s) <= Len(t) /\ SubSeq(t, 1, Len(s)) = s

\* A generator frame of get_autopaginated_resource.
Frame(u) == [url |-> u, pc |-> "fetch", resp |-> None, i |-> 1, next_url |-> None]

Top == stack[Len(stack)]

SetTop(f) == [stack EXCEPT ![Len(stack)] = f]

Pop == SubSeq(stack, 1, Len(stack) - 1)

\* A traversal that never follows the cursor.
NextOfIgnored(envelope) == None

\* paging = resp["meta"].get("paging"); next = paging.get("next") if paging else None
NextOf(envelope) == IF envelope.paging = "next" THEN envelope.next ELSE None

\* The values a caller gives to the query parameters "order" and "fields".
OrderValues == {Absent, "id(asc)", "id(desc)"}

FieldValues == {Absent, "id,name"}

\* The params argument: None (not given), or a dict with or without each key.
CallerParams ==
    { p \in [given : BOOLEAN, order : OrderValues, fields : FieldValues] :
        ~p.given => p = NoParams }

\* not params: None and the empty dict are falsy.
Falsy(p) == ~p.given \/ (p.order = Absent /\ p.fields = Absent)

\* A get_resource that hands the caller's params to the transport untouched.
GetParamsAsGiven(p) == [order |-> p.order, fields |-> p.fields]

\* if not params: params = {}
\* params["order"] = "id(asc)"
GetParams(p) ==
    LET base == IF Falsy(p) THEN [order |-> Absent, fields |-> Absent]
                ELSE [order |-> p.order, fields |-> p.fields]
    IN  [base EXCEPT !.order = "id(asc)"]

\* The caller's dict after get_resource: `if not params: params = {}` leaves
\* None and an empty dict alone; any other dict is the object that
\* params["order"] = "id(asc)" writes to.
AfterGet(p) == IF Falsy(p) THEN p ELSE [p EXCEPT !.order = "id(asc)"]

\* How the fetch of a page goes wrong: get_resource raises (strict-mode HTTP
\* error, transport error), or it returns something that is not an envelope
\* (None, bytes, JSON without "data", JSON with "data" and without "meta").
RaisingKinds == {"http_error", "transport_error"}

ShapeKinds == {"none", "bytes", "no_data", "no_meta"}

Faults(n) ==
    {NoFault} \cup {[page |-> k, kind |-> f] : k \in 1..n, f \in RaisingKinds \cup ShapeKinds}

\* How the page at URL u is served.
Kind(u) == IF fault.page = u THEN fault.kind ELSE "healthy"

\* A get_resource that never raises.
FetchRaisesNever(u) == FALSE

\* self.get_resource(url, **kwargs) raises
FetchRaises(u) == Kind(u) \in RaisingKinds

\* resp["data"] can be evaluated
HasData(u) == Kind(u) \notin {"none", "bytes", "no_data"}

\* resp["meta"] can be evaluated
HasMeta(u) == Kind(u) # "no_meta"

\* The exception each fault ends in.
ExcOf(f) ==
    CASE f = "http_error" -> "HTTPError"
      [] f = "transport_error" -> "TransportError"
      [] f \in {"none", "bytes"} -> "TypeError"
      [] f \in {"no_data", "no_meta"} -> "KeyError"

\* A get_paginated_resource that always walks the pages.
AutopaginatesAlways == TRUE

\* get_paginated_resource: `if not self.autopaginate: ... else: ...`
Autopaginates == autopaginate

\* A generator that goes on to the paging lookup with items still to yield.
ExhaustedAtOnce(f) == TRUE

\* `for d in resp["data"]: yield d` of frame f has yielded every item.
Exhausted(f) == f.i > Len(pages[f.resp].data)

\* A generator is being consumed.
Running == ~done /\ stack # <<>>

\* An exception leaves the generators and reaches the consumer.
RaiseToConsumer(e) ==
    /\ stack' = <<>>
    /\ presult' = [kind |-> "raise", shape |-> "", page |-> Top.url, exc |-> e]

\* A call of get_paginated_resource on a collection of healthy pages, with
\* auto-pagination on and no query parameters.
InitPage ==
    /\ impl \in Impls
    /\ pages \in Chains
    /\ stack = <<Frame(1)>>
    /\ gets = <<>>
    /\ yielded = <<>>
    /\ done = FALSE
    /\ autopaginate = TRUE /\ params = NoParams /\ fault = NoFault
    /\ held = Passes(params)
    /\ sentparams = <<>> /\ presult = PendingPage
    /\ IdleExec
    /\ IdleUpload
    /\ IdleApi
    /\ IdleConc
    /\ IdleTwin

\* A call of get_paginated_resource with any setting of autopaginate: with any
\* query parameters on a healthy server, and with no query parameters on a
\* server where one page goes wrong (get_resource touches params before the
\* request goes out, the faults come after it).
InitGet ==
    /\ impl \in Impls
    /\ pages \in Chains
    /\ stack = <<Frame(1)>>
    /\ gets = <<>>
    /\ yielded = <<>>
    /\ done = FALSE
    /\ autopaginate \in BOOLEAN
    /\ params \in CallerParams
    /\ fault \in IF params = NoParams THEN Faults(Len(pages)) ELSE {NoFault}
    /\ held = Passes(params)
    /\ sentparams = <<>> /\ presult = PendingPage
    /\ IdleExec
    /\ IdleUpload
    /\ IdleApi
    /\ IdleConc
    /\ IdleTwin

\* resp = self.get_resource(url, **kwargs)
Fetch ==
    /\ Running /\ Top.pc = "fetch"
    /\ Autopaginates
    /\ ~FetchRaises(Top.url)
    /\ Len(gets) < GetCap
    /\ gets' = Append(gets, Top.url)
    /\ sentparams' = Append(sentparams, GetParams(held.now))
    /\ stack' = SetTop([Top EXCEPT !.resp = Top.url, !.pc = "items", !.i = 1])
    /\ UNCHANGED <<impl, pages, yielded, done, pconf, presult, notGet>>
    /\ held' = [held EXCEPT !.now = AfterGet(held.now)]

\* resp = self.get_resource(url, **kwargs), and get_resource raises
FetchFails ==
    /\ Running /\ Top.pc = "fetch"
    /\ Autopaginates
    /\ FetchRaises(Top.url)
    /\ Len(gets) < GetCap
    /\ gets' = Append(gets, Top.url)
    /\ sentparams' = Append(sentparams, GetParams(held.now))
    /\ RaiseToConsumer(ExcOf(Kind(Top.url)))
    /\ UNCHANGED <<impl, pages, yielded, done, pconf, notGet>>
    /\ held' = [held EXCEPT !.now = AfterGet(held.now)]

\* if not self.autopaginate: return self.get_resource(url, **kwargs)
GetPage ==
    /\ Running /\ Top.pc = "fetch"
    /\ ~Autopaginates
    /\ gets' = Append(gets, Top.url)
    /\ sentparams' = Append(sentparams, GetParams(held.now))
    /\ IF FetchRaises(Top.url)
       THEN RaiseToConsumer(ExcOf(Kind(Top.url)))
       ELSE /\ stack' = <<>>
            /\ presult' = [kind |-> "value", shape |-> Kind(Top.url),
                           page |-> Top.url, exc |-> ""]
    /\ UNCHANGED <<impl, pages, yielded, done, pconf, notGet>>
    /\ held' = [held EXCEPT !.now = AfterGet(held.now)]

\* for d in resp["data"]: yield d
YieldItem ==
    /\ Running /\ Top.pc = "items"
    /\ HasData(Top.resp)
    /\ Top.i <= Len(pages[Top.resp].data)
    /\ yielded' = Append(yielded, pages[Top.resp].data[Top.i])
    /\ stack' = SetTop([Top EXCEPT !.i = Top.i + 1])
    /\ UNCHANGED <<impl, pages, gets, done, pconf, sentparams, presult, notPage>>

\* resp["data"] on None, on bytes, or on a dict without the key
DataFails ==
    /\ Running /\ Top.pc = "items"
    /\ ~HasData(Top.resp)
    /\ RaiseToConsumer(ExcOf(Kind(Top.resp)))
    /\ UNCHANGED <<impl, pages, gets, yielded, done, pconf, sentparams, notPage>>

\* resp["meta"] on a dict without the key, after the for loop
MetaFails ==
    /\ Running /\ Top.pc = "items"
    /\ HasData(Top.resp) /\ ~HasMeta(Top.resp)
    /\ Exhausted(Top)
    /\ RaiseToConsumer(ExcOf(Kind(Top.resp)))
    /\ UNCHANGED <<impl, pages, gets, yielded, done, pconf, sentparams, notPage>>

\* Session: the paging lookup after the for loop; next_url is set once per frame.
SyncPaging ==
    /\ impl = "Session"
    /\ Running /\ Top.pc = "items"
    /\ HasData(Top.resp) /\ HasMeta(Top.resp)
    /\ Exhausted(Top)
    /\ stack' = SetTop([Top EXCEPT !.next_url = NextOf(pages[Top.resp]), !.pc = "loop"])
    /\ UNCHANGED <<impl, pages, gets, yielded, done, pconf, sentparams, presult, notPage>>

\* Session: while next_url: yield from self.get_paginated_resource(next_url, **kwargs)
\* The loop body starts a nested traversal and never assigns next_url.
SyncDescend ==
    /\ impl = "Session"
    /\ Running /\ Top.pc = "loop"
    /\ Top.next_url # None
    /\ stack' = Append(stack, Frame(Top.next_url))
    /\ UNCHANGED <<impl, pages, gets, yielded, done, pconf, sentparams, presult, notPage>>

\* Session: next_url is falsy, the generator returns; its caller is back at the
\* test of its own while loop.
SyncReturn ==
    /\ impl = "Session"
    /\ Running /\ Top.pc = "loop"
    /\ Top.next_url = None
    /\ stack' = Pop
    /\ done' = (Len(stack) = 1)
    /\ UNCHANGED <<impl, pages, gets, yielded, pconf, sentparams, presult, notPage>>

\* AsyncSession: url = paging.get("next") if paging else None; while url: ...
AsyncPaging ==
    /\ impl = "AsyncSession"
    /\ Running /\ Top.pc = "items"
    /\ HasData(Top.resp) /\ HasMeta(Top.resp)
    /\ Exhausted(Top)
    /\ LET n == NextOf(pages[Top.resp]) IN
         IF n # None
         THEN /\ stack' = SetTop([Top EXCEPT !.url = n, !.pc = "fetch"])
              /\ done' = FALSE
         ELSE /\ stack' = Pop
              /\ done' = TRUE
    /\ UNCHANGED <<impl, pages, gets, yielded, pconf, sentparams, presult, notPage>>

NextPage ==
    \/ Fetch
    \/ YieldItem
    \/ SyncPaging
    \/ SyncDescend
    \/ SyncReturn
    \/ AsyncPaging

SpecPage == InitPage /\ [][NextPage]_vars

\* The consumer keeps asking for items until the sequence ends.
FairSpecPage == SpecPage /\ WF_vars(NextPage)

NextGet ==
    \/ NextPage
    \/ FetchFails
    \/ GetPage
    \/ DataFails
    \/ MetaFails

SpecGet == InitGet /\ [][NextGet]_vars

\* The consumer keeps asking for items until the sequence ends or raises.
FairSpecGet == SpecGet /\ WF_vars(NextGet)

(***************************************************************************)
(* Pagination claims                                                       *)
(***************************************************************************)
\* The URLs of a traversal that requests every page once, in order.
PageUrls == [u \in 1..NPages |-> u]

\* C1: in the blocking Session, a traversal of N pages yields exactly the
\* concatenation of the pages' data arrays in order, no item repeated, with
\* exactly N page GETs: at any time the items yielded are a prefix of the
\* concatenation and at most N GETs were made, and at the end both are complete.
C1_SyncTraversalExact ==
    impl = "Session" =>
        /\ IsPrefix(yielded, AllItems)
        /\ Len(gets) <= NPages
        /\ done => (yielded = AllItems /\ gets = PageUrls)

\* A page without meta.paging.next has been fetched and its items yielded.
LastPageYielded ==
    /\ \E k \in 1..Len(gets) : gets[k] = NPages
    /\ IsPrefix(AllItems, yielded)

\* C2: in the blocking Session, once a page without meta.paging.next has been
\* fetched and its items yielded, no further GET is issued.
C2_SyncNoGetAfterLastPage ==
    [][(impl = "Session" /\ LastPageYielded) => gets' = gets]_vars

\* C3: in AsyncSession, a traversal of N pages yields exactly the concatenation
\* of the pages' data arrays in order and then ends, with exactly N page GETs.
C3_AsyncTraversalExact ==
    /\ [](impl = "AsyncSession" =>
            /\ IsPrefix(yielded, AllItems)
            /\ IsPrefix(gets, PageUrls)
            /\ done => (yielded = AllItems /\ gets = PageUrls))
    /\ (impl = "AsyncSession") ~> done

C3_Witness ==
    /\ impl = "AsyncSession"
    /\ done
    /\ NPages = MaxPages
    /\ Len(yielded) > NPages
    /\ yielded = AllItems
    /\ gets = PageUrls

\* The query parameters of a GET made for a caller who passed none.
OrderOnly == [order |-> "id(asc)", fields |-> Absent]

\* C11: every GET issued through get_resource (a single-resource GET, the first
\* page and every following page of a traversal) carries order=id(asc) together
\* with the caller's other parameters; with no caller parameters the single GET
\* of get_resource goes out once, with params {order: id(asc)}.
C11_OrderOnEveryGet ==
    /\ Len(sentparams) = Len(gets)
    /\ \A i \in 1..Len(sentparams) :
            /\ sentparams[i].order = "id(asc)"
            /\ sentparams[i].fields = params.fields
    /\ (~autopaginate /\ presult.kind # "pending" /\ Falsy(params)) =>
            sentparams = <<OrderOnly>>

C11_Witness ==
    /\ autopaginate
    /\ params.given /\ params.fields = "id,name" /\ params.order = Absent
    /\ Len(sentparams) = MaxPages
    /\ gets = PageUrls
    /\ sentparams[MaxPages] = [order |-> "id(asc)", fields |-> "id,name"]

\* C12: when the caller supplies an 'order' query parameter, the GET is sent
\* with the caller's value; order=id(asc) is sent only when the caller gives none.
C12_CallerOrderWins ==
    \A i \in 1..Len(sentparams) :
        sentparams[i].order = IF params.order # Absent THEN params.order ELSE "id(asc)"

\* C14: with auto-pagination off, get_paginated_resource sends one GET and
\* returns what get_resource decoded for the first page, as is; it follows
\* meta.paging.next in no case, and yields nothing.
C14_NoAutopaginateOneGet ==
    ~autopaginate =>
        /\ Len(gets) <= 1
        /\ yielded = <<>>
        /\ ~done
        /\ presult.kind # "pending" => gets = <<1>>
        /\ presult.kind = "value" => (presult.page = 1 /\ presult.shape = Kind(1))

C14_Witness ==
    /\ ~autopaginate
    /\ NPages = MaxPages
    /\ NextOf(pages[1]) = 2
    /\ fault = NoFault
    /\ presult.kind = "value" /\ presult.shape = "healthy" /\ presult.page = 1
    /\ gets = <<1>>

\* The items of pages 1..k, in order.
RECURSIVE ConcatTo(_)
ConcatTo(k) == IF k = 0 THEN <<>> ELSE ConcatTo(k - 1) \o pages[k].data

\* An auto-paginated traversal of a collection whose page fault.page goes wrong.
FaultyTraversal == autopaginate /\ fault.page # 0

\* C16: in an auto-paginated traversal in which the fetch of page k fails
\* (get_resource raises, or returns something that is not an envelope), the
\* traversal ends by raising to the consumer, after the items of pages 1..k-1
\* were yielded; no page after k is requested, no item of a later page is
\* yielded, and the traversal never ends normally. (Of page k itself, items are
\* yielded only when its envelope has "data" and lacks "meta".)
C16_FailedPageEndsTraversal ==
    /\ [](FaultyTraversal =>
            /\ IsPrefix(gets, PageUrls)
            /\ Len(gets) <= fault.page
            /\ IsPrefix(yielded, ConcatTo(fault.page))
            /\ fault.kind # "no_meta" => IsPrefix(yielded, ConcatTo(fault.page - 1))
            /\ ~done
            /\ presult.kind \in {"pending", "raise"}
            /\ presult.kind = "raise" =>
                    /\ stack = <<>>
                    /\ Len(gets) = fault.page
                    /\ IsPrefix(ConcatTo(fault.page - 1), yielded)
                    /\ presult.page = fault.page
                    /\ presult.exc = ExcOf(fault.kind))
    /\ FaultyTraversal ~> (presult.kind = "raise")

C16_Witness ==
    /\ impl = "Session"
    /\ autopaginate
    /\ NPages = MaxPages
    /\ fault = [page |-> MaxPages, kind |-> "http_error"]
    /\ presult.kind = "raise" /\ presult.exc = "HTTPError"
    /\ Len(gets) = MaxPages
    /\ yielded = ConcatTo(MaxPages - 1)
    /\ Len(yielded) >= MaxPages - 1

\* The data arrays of the first k responses received, in the order received.
RECURSIVE GotData(_)
GotData(k) == IF k = 0 THEN <<>> ELSE GotData(k - 1) \o pages[gets[k]].data

HasEmptyInnerPage == \E u \in 1..(NPages - 1) : pages[u].data = <<>>

\* C33: a page with an empty data array and with meta.paging.next does not end
\* the traversal: the pages are fetched one after the other up to the first
\* page without meta.paging or without paging.next, the traversal ends there and
\* not before, and every item of the pages has been yielded by then.
C33_EmptyPageDoesNotEnd ==
    HasEmptyInnerPage =>
        /\ IsPrefix(gets, PageUrls)
        /\ done => (gets = PageUrls /\ yielded = AllItems)

\* C39: operations leave the caller's query-parameter map as it was: after
\* get_resource, after every page GET of a traversal that passes the same map
\* on, and after AsyncSession.upload_document, the map has the keys and the
\* values it had before the call.
C39_CallerParamsUnchanged == held.now = held.before

(***************************************************************************)
(* REQUEST EXECUTION: the ratelimit wrapper of get/post/patch/delete       *)
(***************************************************************************)
MaxRedirects == 1

Methods == {"GET", "POST", "PATCH", "DELETE"}

\* The status codes the wrapper tells apart: success, no content, a redirect,
\* too many requests, and a failure.
Statuses == {200, 204, 302, 429, 500}

\* Content-Type: JSON, something else, or no such header.
ContentTypes == {"json", "other", Absent}

\* The body of a response:
\*   "empty"        no content
\*   "json"         a JSON document without the legacy wrapper
\*   "marker"       JSON with metadata.encodingDecoded = "text/plain" whose data
\*                  is base64 of a text that contains "RateLimited"
\*   "clean"        the same wrapper, the decoded text without the marker
\*   "undecodable"  the same wrapper, data not base64 or not UTF-8
\*   "raw"          bytes that are not JSON
Bodies == {"empty", "json", "marker", "clean", "undecodable", "raw"}

\* X-RateLimit-Limit and X-RateLimit-Remaining, as header strings.
RateHeaders == {<<Absent, Absent>>, <<"100", "99">>}

\* Retry-After, as a header string: none, a number of seconds, or something
\* that is not an integer.
RetryAfters == {Absent, "2", "soon"}

\* Location: none, an object-storage URL ("s3." in it), another URL.
Locations == {Absent, "s3", "other"}

\* The responses of the transport. Fields the code never reads for a response
\* are fixed: the body's structure matters only under a JSON Content-Type,
\* Retry-After only with 429, Location only with a redirect status.
Responses ==
    { r \in [status : Statuses, ct : ContentTypes, body : Bodies,
             limit : {h[1] : h \in RateHeaders}, remaining : {h[2] : h \in RateHeaders},
             retry_after : RetryAfters, location : Locations] :
        /\ <<r.limit, r.remaining>> \in RateHeaders
        /\ r.ct # "json" => r.body \in {"empty", "raw"}
        /\ r.status # 429 => r.retry_after = Absent
        /\ r.status # 302 => r.location = Absent }

Raise(e) == [kind |-> "raise", exc |-> e, status |-> 0]

RaiseStatus(e, st) == [kind |-> "raise", exc |-> e, status |-> st]

\* A returned value: None, the parsed JSON of resp, the content of resp, or the
\* bytes read from object storage.
Value(v) == [kind |-> v, exc |-> "", status |-> 0]

\* int(retry_after) succeeds
IsIntString(h) == h \in {"1", "2"}

\* What int(retry_after) raises when it fails: TypeError on None, ValueError
\* on a string that is not an integer.
IntError(h) == IF h = Absent THEN "TypeError" ELSE "ValueError"

\* int(retry_after)
ToInt(h) == CASE h = "1" -> 1 [] h = "2" -> 2

\* A wrapper that backs off for a fixed time, whatever Retry-After says.
RetryDelayFixed(r) == 60

\* time.sleep(int(retry_after)) / await asyncio.sleep(int(retry_after))
RetryDelay(r) == ToInt(r.retry_after)

\* A legacy check that waits as long as Retry-After says.
LegacyDelayFromHeader == IF IsIntString(resp.retry_after) THEN ToInt(resp.retry_after) ELSE 0

\* await asyncio.sleep(60)  # default to 60s
LegacyDelay == 60

\* A wrapper without the 429 branch.
Is429HandledNever(r) == FALSE

\* resp.status_code == 429 and self.ratelimit
Is429Handled(r) == r.status = 429 /\ ratelimit

\* resp.is_redirect and "location" in resp.headers
IsRedirect(r) == r.status = 302 /\ r.location # Absent

\* "s3." in s3_url
IsS3(r) == r.location = "s3"

\* resp.json() raises
JsonFails(r) == r.body \in {"empty", "raw"}

\* A legacy check that takes a payload it cannot decode for the marker.
LegacyMarkerOrUndecodable(r) == r.ct = "json" /\ r.body \in {"marker", "undecodable"}

\* The legacy check finds the marker: JSON Content-Type, metadata.encodingDecoded
\* == "text/plain", and "RateLimited" in the decoded data.
LegacyMarker(r) == r.ct = "json" /\ r.body = "marker"

\* requests.Response.raise_for_status raises for 4xx and 5xx.
RequestsRaises(r) == r.status >= 400 /\ r.status < 600

\* httpx.Response.raise_for_status raises for every status but 2xx.
HttpxRaises(r) == r.status > 299

\* A handler that catches whatever is raised, cancellation included.
CatchesAll(e) == TRUE

\* `except Exception` catches e. asyncio.CancelledError derives from
\* BaseException, not from Exception.
Catches(e) == e # "CancelledError"

\* A wrapper that stores the headers whatever self.ratelimit says.
UpdateRatelimitsAlways(r) ==
    /\ ratelimit_limit' = r.limit
    /\ ratelimit_remaining' = r.remaining

\* Session: the end of the wrapper, from `if not resp.content`.
DecodeSync(r) ==
    IF r.body = "empty" THEN Value("None")
    ELSE IF r.ct = Absent THEN Raise("TypeError")
    ELSE IF r.ct = "json"
         THEN (IF JsonFails(r) THEN Raise("JSONDecodeError") ELSE Value("json"))
         ELSE Value("content")

\* AsyncSession: the end of the wrapper, from `if resp.status_code == 204`.
DecodeAsync(r) ==
    IF r.status = 204 THEN Value("None")
    ELSE IF r.ct = Absent THEN Raise("TypeError")
    ELSE IF r.ct = "json"
         THEN (IF JsonFails(r) THEN Raise("JSONDecodeError") ELSE Value("json"))
         ELSE Value("content")

\* The Python type of a value kept in ratelimit_limit or ratelimit_remaining:
\* math.inf from __init__, or what response.headers.get(...) returned, a str or
\* None; update_ratelimits converts nothing.
TypeOf(v) == IF v = Inf THEN "inf" ELSE IF v = Absent THEN "NoneType" ELSE "str"

\* update_ratelimits(response)
UpdateRatelimits(r) ==
    IF ratelimit
    THEN /\ ratelimit_limit' = r.limit
         /\ ratelimit_remaining' = r.remaining
    ELSE UNCHANGED bvars

\* The wrapper ends with res. A caller waiting in
\* `resp = await self.get_resource(s3_url)` passes an exception on, and fails on
\* `resp.headers` when it gets a decoded value instead of a response.
Return(res) ==
    /\ result' = IF depth > 0 /\ res.kind # "raise" THEN Raise("AttributeError") ELSE res
    /\ depth' = 0
    /\ pc' = "done"

\* An entry of trail for a step that receives no response.
Step(name) == [step |-> name, status |-> 0, marker |-> FALSE, redirect |-> FALSE]

\* An entry of trail for a response r received from the authenticated transport.
Recv(name, r) ==
    [step |-> name, status |-> r.status, marker |-> LegacyMarker(r),
     redirect |-> IsRedirect(r)]

InitExec ==
    /\ impl \in Impls
    /\ ratelimit \in BOOLEAN
    /\ raise_for_status \in BOOLEAN
    /\ ratelimit_limit = Inf /\ ratelimit_remaining = Inf
    /\ method \in Methods
    /\ pc = "call" /\ resp = NoResp
    /\ trail = <<>> /\ sleeps = <<>> /\ sent = 0 /\ s3gets = 0 /\ depth = 0
    /\ result = Pending
    /\ IdlePage
    /\ IdleUpload
    /\ IdleApi
    /\ IdleConc
    /\ IdleTwin
    /\ IdleHeld

\* resp = f(self, *args, **kwargs): the transport answers or raises.
Call ==
    /\ pc = "call"
    /\ sent' = sent + 1
    /\ \/ \E r \in Responses :
            /\ resp' = r
            /\ pc' = "after_call"
            /\ trail' = Append(trail, Recv("call", r))
            /\ UNCHANGED <<result, depth>>
       \/ /\ Return(Raise("TransportError"))
          /\ trail' = Append(trail, Step("call_failed"))
          /\ UNCHANGED resp
    /\ UNCHANGED <<impl, cvars, bvars, method, sleeps, s3gets, notExec>>

\* The 429 branch: read Retry-After and sleep int(retry_after) seconds.
Backoff429 ==
    /\ pc = "after_call"
    /\ Is429Handled(resp)
    /\ IF IsIntString(resp.retry_after)
       THEN /\ sleeps' = Append(sleeps, RetryDelay(resp))
            /\ pc' = "retry"
            /\ trail' = Append(trail, Step("sleep429"))
            /\ UNCHANGED <<result, depth>>
       ELSE /\ Return(Raise(IntError(resp.retry_after)))
            /\ trail' = Append(trail, Step("sleep429_failed"))
            /\ UNCHANGED sleeps
    /\ UNCHANGED <<impl, cvars, bvars, method, resp, sent, s3gets, notExec>>

\* AsyncSession: the task is cancelled while it waits in
\* `await asyncio.sleep(int(retry_after))`; nothing catches the CancelledError.
AsyncCancel429Sleep ==
    /\ impl = "AsyncSession"
    /\ pc = "after_call"
    /\ Is429Handled(resp)
    /\ IsIntString(resp.retry_after)
    /\ Return(Raise("CancelledError"))
    /\ trail' = Append(trail, Step("sleep429_cancelled"))
    /\ UNCHANGED <<impl, cvars, bvars, method, resp, sleeps, sent, s3gets, notExec>>

\* # Retry the request: resp = f(self, *args, **kwargs)
Retry429 ==
    /\ pc = "retry"
    /\ sent' = sent + 1
    /\ \/ \E r \in Responses :
            /\ resp' = r
            /\ pc' = "after_retry"
            /\ trail' = Append(trail, Recv("retry", r))
            /\ UNCHANGED <<result, depth>>
       \/ /\ Return(Raise("TransportError"))
          /\ trail' = Append(trail, Step("retry_failed"))
          /\ UNCHANGED resp
    /\ UNCHANGED <<impl, cvars, bvars, method, sleeps, s3gets, notExec>>

\* The if/elif on 429 is behind the wrapper.
Past429 == pc = "after_retry" \/ (pc = "after_call" /\ ~Is429Handled(resp))

\* Session: `elif self.raise_for_status: resp.raise_for_status()` belongs to the
\* `if` of the 429 branch, so it is skipped once that branch has run.
SyncStrictRaises == pc = "after_call" /\ raise_for_status /\ RequestsRaises(resp)

\* Session: the strict check, update_ratelimits and the decoding.
SyncFinish ==
    /\ impl = "Session"
    /\ Past429
    /\ IF SyncStrictRaises
       THEN /\ Return(RaiseStatus("HTTPError", resp.status))
            /\ UNCHANGED bvars
       ELSE /\ UpdateRatelimits(resp)
            /\ Return(DecodeSync(resp))
    /\ trail' = Append(trail, Step("finish"))
    /\ UNCHANGED <<impl, cvars, method, resp, sleeps, sent, s3gets, notExec>>

\* AsyncSession: a redirect to object storage is fetched through a fresh
\* aiohttp.ClientSession and its body returned.
AsyncS3Fetch ==
    /\ impl = "AsyncSession"
    /\ Past429
    /\ IsRedirect(resp) /\ IsS3(resp)
    /\ s3gets' = s3gets + 1
    /\ \/ Return(Value("s3_bytes"))
       \/ Return(Raise("TransportError"))
    /\ trail' = Append(trail, Step("s3"))
    /\ UNCHANGED <<impl, cvars, bvars, method, resp, sleeps, sent, notExec>>

\* AsyncSession: any other redirect: resp = await self.get_resource(s3_url)
\* The wrapper of the nested get_resource starts with a resp of its own.
AsyncReissue ==
    /\ impl = "AsyncSession"
    /\ Past429
    /\ IsRedirect(resp) /\ ~IsS3(resp)
    /\ depth < MaxRedirects
    /\ depth' = depth + 1
    /\ method' = "GET"
    /\ pc' = "call"
    /\ resp' = NoResp
    /\ trail' = Append(trail, Step("reissue"))
    /\ UNCHANGED <<impl, cvars, bvars, sleeps, sent, s3gets, result, notExec>>

\* AsyncSession: the legacy check found the marker: await asyncio.sleep(60)
AsyncLegacyBackoff ==
    /\ impl = "AsyncSession"
    /\ Past429
    /\ ~IsRedirect(resp)
    /\ LegacyMarker(resp)
    /\ sleeps' = Append(sleeps, LegacyDelay)
    /\ pc' = "legacy_retry"
    /\ trail' = Append(trail, Step("sleep60"))
    /\ UNCHANGED <<impl, cvars, bvars, method, resp, sent, s3gets, depth, result, notExec>>

\* AsyncSession: the task is cancelled while it waits in `await asyncio.sleep(60)`,
\* inside the try of the legacy check.
AsyncCancelLegacySleep ==
    /\ impl = "AsyncSession"
    /\ Past429
    /\ ~IsRedirect(resp)
    /\ LegacyMarker(resp)
    /\ IF Catches("CancelledError")
       THEN /\ pc' = "final"
            /\ UNCHANGED <<result, depth>>
       ELSE Return(Raise("CancelledError"))
    /\ trail' = Append(trail, Step("sleep60_cancelled"))
    /\ UNCHANGED <<impl, cvars, bvars, method, resp, sleeps, sent, s3gets, notExec>>

\* AsyncSession: resp = await f(self, *args, **kwargs) inside the try: an
\* exception of the transport is caught by `except Exception` and logged.
AsyncLegacyRetry ==
    /\ pc = "legacy_retry"
    /\ sent' = sent + 1
    /\ \/ \E r \in Responses :
            /\ resp' = r
            /\ trail' = Append(trail, Recv("legacy_retry", r))
            /\ pc' = "final"
            /\ UNCHANGED <<result, depth>>
       \/ /\ UNCHANGED resp
          /\ trail' = Append(trail, Step("legacy_retry_failed"))
          /\ IF Catches("TransportError")
             THEN /\ pc' = "final"
                  /\ UNCHANGED <<result, depth>>
             ELSE Return(Raise("TransportError"))
    /\ UNCHANGED <<impl, cvars, bvars, method, sleeps, s3gets, notExec>>

\* AsyncSession: the legacy check's resp.json() of a response that took no legacy
\* resend, then the strict check, update_ratelimits and the decoding.
AsyncFinish ==
    /\ impl = "AsyncSession"
    /\ \/ pc = "final"
       \/ Past429 /\ ~IsRedirect(resp) /\ ~LegacyMarker(resp)
    /\ IF pc # "final" /\ resp.ct = "json" /\ JsonFails(resp)
       THEN /\ Return(Raise("JSONDecodeError"))
            /\ UNCHANGED bvars
       ELSE IF raise_for_status /\ HttpxRaises(resp)
       THEN /\ Return(RaiseStatus("HTTPStatusError", resp.status))
            /\ UNCHANGED bvars
       ELSE /\ UpdateRatelimits(resp)
            /\ Return(DecodeAsync(resp))
    /\ trail' = Append(trail, Step("finish"))
    /\ UNCHANGED <<impl, cvars, method, resp, sleeps, sent, s3gets, notExec>>

\* The operation is over; the caller starts another one on the same session.
NextOperation ==
    /\ pc = "done"
    /\ method' \in Methods
    /\ pc' = "call" /\ resp' = NoResp
    /\ trail' = <<>> /\ sleeps' = <<>> /\ sent' = 0 /\ s3gets' = 0 /\ depth' = 0
    /\ result' = Pending
    /\ UNCHANGED <<impl, cvars, bvars, notExec>>

NextExec ==
    \/ Call
    \/ Backoff429
    \/ AsyncCancel429Sleep
    \/ Retry429
    \/ SyncFinish
    \/ AsyncS3Fetch
    \/ AsyncReissue
    \/ AsyncLegacyBackoff
    \/ AsyncCancelLegacySleep
    \/ AsyncLegacyRetry
    \/ AsyncFinish
    \/ NextOperation

SpecExec == InitExec /\ [][NextExec]_vars

(***************************************************************************)
(* Request-execution claims                                                *)
(***************************************************************************)
Returned == result.kind \in {"None", "json", "content"}

\* The operation has ended; its first response was a 429, it slept and resent,
\* and the answer to the resend had status st.
Ended429Then(st) ==
    /\ ratelimit
    /\ pc = "done"
    /\ Len(trail) >= 3
    /\ trail[1].step = "call" /\ trail[1].status = 429
    /\ trail[2].step = "sleep429"
    /\ trail[3].step = "retry" /\ trail[3].status = st

\* C4: with the rate-limit feature on, a 429 answered on the resend by a 200
\* makes the operation send exactly twice, wait exactly once, for Retry-After
\* seconds, between the two sends, and return the decoded body of the 200.
C4_Retry429Then200 ==
    /\ (ratelimit /\ pc = "retry" /\ depth = 0) =>
            (sent = 1 /\ sleeps = <<ToInt(resp.retry_after)>>)
    /\ Ended429Then(200) =>
            (sent = 2 /\ Len(sleeps) = 1 /\ resp.status = 200 /\ Returned)

\* C5: with the rate-limit feature on, a 429 answered on the single resend by
\* another 429 ends in an HTTP status error, whatever the strict-error setting.
C5_Second429Raises ==
    Ended429Then(429) =>
        (result.kind = "raise" /\ result.exc \in {"HTTPError", "HTTPStatusError"})

\* The operation ended in the wrapper's last part (strict check, budget update,
\* decoding), so resp is its final response.
EndedOnFinalResponse ==
    /\ pc = "done"
    /\ trail[Len(trail)].step = "finish"
    /\ \A i \in 1..Len(trail) : trail[i].step # "reissue"

\* C6: in strict-error mode an operation whose final response has a failure
\* status raises an HTTP error carrying that status, also when the final
\* response answers a 429-triggered resend.
C6_StrictRaisesOnFailure ==
    (raise_for_status /\ EndedOnFinalResponse /\ resp.status >= 400) =>
        /\ result.kind = "raise"
        /\ result.exc \in {"HTTPError", "HTTPStatusError"}
        /\ result.status = resp.status

\* How many of the first n steps slept.
SleepCount(n) ==
    Cardinality({j \in 1..n : trail[j].step \in {"sleep429", "sleep60"}})

\* After trail[i], a response with the marker: one 60-second wait, one resend,
\* and then only the end of the wrapper.
LegacyHandled(i) ==
    /\ i + 1 <= Len(trail) =>
            /\ trail[i + 1].step = "sleep60"
            /\ sleeps[SleepCount(i + 1)] = 60
    /\ i + 2 <= Len(trail) => trail[i + 2].step \in {"legacy_retry", "legacy_retry_failed"}
    /\ i + 3 <= Len(trail) => (trail[i + 3].step = "finish" /\ Len(trail) = i + 3)
    /\ Len(sleeps) = SleepCount(Len(trail))

\* The task was cancelled in one of the wrapper's sleeps.
Cancelled ==
    \E j \in 1..Len(trail) : trail[j].step \in {"sleep429_cancelled", "sleep60_cancelled"}

\* C10 as stated: in AsyncSession every response with the legacy marker, whatever
\* its status, except the answer to the legacy resend itself, is followed by
\* exactly one 60-second wait and one resend, whose response is final.
C10_LegacyAnyStatus ==
    (impl = "AsyncSession" /\ ~Cancelled) =>
        \A i \in 1..Len(trail) :
            (trail[i].marker /\ trail[i].step \in {"call", "retry"} /\ i < Len(trail))
                => LegacyHandled(i)

\* trail[i] is a response that reaches the legacy check: not a 429 that the
\* rate-limit feature resends, and not a redirect with a Location header.
ReachesLegacyCheck(i) ==
    /\ trail[i].step \in {"call", "retry"}
    /\ ~(trail[i].step = "call" /\ trail[i].status = 429 /\ ratelimit)
    /\ ~trail[i].redirect

\* C10, amended: in AsyncSession, the task not being cancelled, a response with
\* the legacy marker that reaches the legacy check, whatever its status, is
\* followed by exactly one 60-second wait and exactly one resend; after the
\* resend the operation ends
\* without another wait or send, the marker not being looked for again.
C10_LegacyOnce ==
    (impl = "AsyncSession" /\ ~Cancelled) =>
        /\ \A i \in 1..Len(trail) :
                (trail[i].marker /\ ReachesLegacyCheck(i) /\ i < Len(trail))
                    => LegacyHandled(i)
        /\ pc = "legacy_retry" => trail[Len(trail)].step = "sleep60"
        /\ pc = "final" =>
                trail[Len(trail)].step \in {"legacy_retry", "legacy_retry_failed"}

\* A failure response with the marker was resent after 60 seconds, the answer to
\* the resend carried the marker too, and the operation ended on it.
C10_Witness ==
    /\ impl = "AsyncSession"
    /\ pc = "done"
    /\ Len(trail) = 4
    /\ trail[1].step = "call" /\ trail[1].marker /\ trail[1].status = 500
    /\ trail[2].step = "sleep60"
    /\ trail[3].step = "legacy_retry" /\ trail[3].marker
    /\ trail[4].step = "finish"
    /\ sleeps = <<60>>
    /\ sent = 2

\* A response as a server can send it: no body with 204, and a JSON
\* Content-Type on a body that is JSON or empty.
WellFormed(r) ==
    /\ r.status = 204 => r.body = "empty"
    /\ r.ct = "json" => r.body # "raw"

\* The result the decoding rules give for a final response r.
Decoded(r) ==
    IF r.status = 204 \/ r.body = "empty" THEN Value("None")
    ELSE IF r.ct = "json" THEN Value("json")
    ELSE Value("content")

\* C13: in Session and in AsyncSession the result of an operation is decoded
\* from its final response: None for status 204 or an empty body, the parsed
\* JSON under a JSON Content-Type, the raw bytes otherwise (also without a
\* Content-Type header); the decoding raises for none of these responses.
C13_DecodeTotal ==
    (~raise_for_status /\ EndedOnFinalResponse /\ WellFormed(resp)) =>
        result = Decoded(resp)

\* C15: with the rate-limit feature off, ratelimit_limit and ratelimit_remaining
\* stay at math.inf through any sequence of operations, whatever X-RateLimit
\* headers the responses carry.
C15_BudgetUntouchedWhenOff ==
    ~ratelimit => (ratelimit_limit = Inf /\ ratelimit_remaining = Inf)

\* With the feature off, an operation has returned the body of a response that
\* carried both rate-limit headers.
C15_Witness ==
    /\ ~ratelimit
    /\ pc = "done"
    /\ Returned
    /\ trail[Len(trail)].step = "finish"
    /\ resp.limit = "100" /\ resp.remaining = "99"
    /\ ratelimit_limit = Inf /\ ratelimit_remaining = Inf

\* The steps in which the authenticated transport raised.
FailedSends == {"call_failed", "retry_failed", "legacy_retry_failed"}

\* C17: an exception raised by the authenticated transport on any send of an
\* operation (the first send, the resend after a 429, the resend of the legacy
\* workaround) ends the operation at once and reaches the caller unchanged.
C17_TransportErrorPropagates ==
    \A i \in 1..Len(trail) :
        trail[i].step \in FailedSends =>
            /\ i = Len(trail)
            /\ pc = "done"
            /\ result = Raise("TransportError")

\* The steps that send through the authenticated transport.
SendSteps == {"call", "retry", "legacy_retry"} \cup FailedSends

Sends(n) == Cardinality({j \in 1..n : trail[j].step \in SendSteps})

\* C18: in AsyncSession a cancellation delivered during a backoff sleep (the
\* Retry-After sleep or the 60-second legacy sleep) ends the operation with the
\* cancellation: no request is sent after it, no result is returned, and the
\* end of the wrapper, where the rate-limit counters are updated, is not run.
C18_CancelInSleepPropagates ==
    /\ sent = Sends(Len(trail))
    /\ \A i \in 1..Len(trail) :
            trail[i].step \in {"sleep429_cancelled", "sleep60_cancelled"} =>
                /\ impl = "AsyncSession"
                /\ i = Len(trail)
                /\ pc = "done"
                /\ result = Raise("CancelledError")
                /\ \A j \in 1..Len(trail) : trail[j].step # "finish"

\* The first response carried the legacy marker and the task was cancelled in
\* the 60-second sleep.
C18_Witness ==
    /\ impl = "AsyncSession"
    /\ pc = "done"
    /\ Len(trail) = 2
    /\ trail[1].step = "call" /\ trail[1].marker
    /\ trail[2].step = "sleep60_cancelled"
    /\ result = Raise("CancelledError")
    /\ sent = 1 /\ sleeps = <<>>

HasReissue == \E j \in 1..Len(trail) : trail[j].step = "reissue"

\* C21: in AsyncSession, after a resend triggered by a 429 there is no further
\* wait and no further resend, whether the answer to the resend is another 429
\* or carries the legacy marker: one operation sends its request at most twice.
C21_OneResendOnly ==
    impl = "AsyncSession" =>
        /\ \A i \in 1..Len(trail) :
                trail[i].step = "retry" =>
                    \A j \in (i + 1)..Len(trail) :
                        trail[j].step \notin {"sleep429", "sleep60", "sleep60_cancelled",
                                              "legacy_retry", "legacy_retry_failed"}
        /\ ~HasReissue => (sent <= 2 /\ Len(sleeps) <= 1)

\* X-RateLimit-Limit and X-RateLimit-Remaining of a response.
Headers(r) == <<r.limit, r.remaining>>

Budget == <<ratelimit_limit, ratelimit_remaining>>

\* C26: with the rate-limit feature on, the counters hold the header values of
\* every response the wrapper has dealt with: of a 429 once the wrapper has
\* slept on it and is about to resend, of a failure response that strict mode
\* has turned into an error, and of the response whose body was returned.
C26_BudgetAfterEveryResponse ==
    ratelimit =>
        /\ pc = "retry" => Budget = Headers(resp)
        /\ (pc = "done" /\ result.exc \in {"HTTPError", "HTTPStatusError"}) =>
                Budget = Headers(resp)
        /\ (pc = "done" /\ trail[Len(trail)].step = "finish" /\ Returned) =>
                Budget = Headers(resp)

\* C28: with the rate-limit feature on, after any sequence of responses, with
\* or without the rate-limit headers, ratelimit_limit and ratelimit_remaining
\* each hold an integer or math.inf, never None.
C28_BudgetIntegerOrUnbounded ==
    ratelimit =>
        /\ TypeOf(ratelimit_limit) \in {"int", "inf"}
        /\ TypeOf(ratelimit_remaining) \in {"int", "inf"}

\* C29: in AsyncSession, when a response is a redirect to a Location that is
\* not object storage and the GET re-issued to it ends with a decoded result,
\* the operation returns that result.
C29_ReissueResultReturned ==
    (/\ impl = "AsyncSession"
     /\ pc = "done"
     /\ HasReissue
     /\ trail[Len(trail)].step = "finish"
     /\ ~raise_for_status
     /\ ~(resp.ct = "json" /\ JsonFails(resp))
     /\ DecodeAsync(resp).kind # "raise") =>
        result = DecodeAsync(resp)

\* C30: in AsyncSession, when a response is a redirect to object storage, the
\* target is fetched once through the unauthenticated transport and the
\* operation ends there: it returns the raw body (or raises what the fetch
\* raised), with no legacy check, strict check or decoding, and nothing more
\* goes out through the authenticated transport.
C30_StorageRedirectReturnsBody ==
    impl = "AsyncSession" =>
        \A i \in 1..Len(trail) :
            trail[i].step = "s3" =>
                /\ i = Len(trail)
                /\ pc = "done"
                /\ s3gets = 1
                /\ sent = Sends(Len(trail))
                /\ result \in {Value("s3_bytes"), Raise("TransportError")}

\* The response carries the legacy wrapper with a payload that cannot be decoded.
Undecodable(r) == r.ct = "json" /\ r.body = "undecodable"

\* The same response without the legacy wrapper.
WithoutWrapper(r) == [r EXCEPT !.body = "json"]

\* What the strict check and the decoding of AsyncSession make of response r.
AsyncOutcome(r) ==
    IF raise_for_status /\ r.status > 299
    THEN RaiseStatus("HTTPStatusError", r.status)
    ELSE DecodeAsync(r)

\* The legacy check of AsyncSession is about to look at a response with an
\* undecodable payload.
AtUndecodable ==
    /\ impl = "AsyncSession"
    /\ depth = 0
    /\ Past429
    /\ ~IsRedirect(resp)
    /\ Undecodable(resp)

\* C31: in AsyncSession, when the payload of the legacy wrapper cannot be
\* base64-decoded or UTF-8-decoded, the operation neither waits nor resends: its
\* next step ends it with the strict check, the budget update and the decoding
\* of the original response, as if the wrapper were absent.
C31_UndecodablePayloadIgnored ==
    [][AtUndecodable =>
        /\ sleeps' = sleeps /\ sent' = sent /\ s3gets' = s3gets
        /\ resp' = resp
        /\ pc' = "done"
        /\ result' = AsyncOutcome(WithoutWrapper(resp))
        /\ Budget' = IF result'.kind # "raise" /\ ratelimit THEN Headers(resp) ELSE Budget]_vars

C31_Witness ==
    /\ impl = "AsyncSession"
    /\ pc = "done"
    /\ Undecodable(resp)
    /\ resp.status = 200
    /\ ratelimit /\ raise_for_status
    /\ Len(trail) = 2 /\ trail[1].step = "call" /\ trail[2].step = "finish"
    /\ sleeps = <<>> /\ sent = 1
    /\ result = Value("json")
    /\ Budget = Headers(resp)

\* C37: with the rate-limit feature off, no operation of Session or AsyncSession
\* sleeps or sends its request more than once, whatever the responses are.
C37_NoRetryWhenOff ==
    ~ratelimit =>
        /\ sleeps = <<>>
        /\ ~HasReissue => sent <= 1

\* The wrapper has a 429 in hand whose Retry-After is missing or not an integer,
\* with the rate-limit feature on.
At429WithoutDelay ==
    /\ ratelimit
    /\ pc = "after_call"
    /\ resp.status = 429
    /\ ~IsIntString(resp.retry_after)

\* C38: with the rate-limit feature on, a 429 without a Retry-After header, or
\* with one that is not an integer, makes the operation fail with an error
\* before any wait or resend: the request has been sent once, nothing was slept,
\* and the next step raises, sends nothing, sleeps nothing and leaves
\* RateLimitBudget as it was.
C38_429WithoutDelayRaises ==
    /\ [](At429WithoutDelay /\ ~HasReissue => (sent = 1 /\ sleeps = <<>>))
    /\ [][At429WithoutDelay =>
            /\ pc' = "done"
            /\ result'.kind = "raise"
            /\ result'.exc = IntError(resp.retry_after)
            /\ sent' = sent /\ s3gets' = s3gets
            /\ sleeps' = sleeps
            /\ Budget' = Budget]_vars

C38_Witness ==
    /\ ratelimit
    /\ pc = "done"
    /\ resp.status = 429 /\ resp.retry_after = "soon"
    /\ Len(trail) = 2 /\ trail[1].step = "call" /\ trail[2].step = "sleep429_failed"
    /\ result = Raise("ValueError")
    /\ sent = 1 /\ sleeps = <<>>
    /\ Budget = <<"100", "99">>

(***************************************************************************)
(* DOCUMENT UPLOAD                                                         *)
(***************************************************************************)
\* PART_SIZE = 104857600  # 100 megabytes in bytes
PART_SIZE == 104857600

\* Bounds: the whole parts of the largest file, the longest target list the API
\* returns.
MaxWholeParts == 2
MaxTargets == 3

SingleShotFns ==
    {"Session.upload_document", "Session.upload_document_async",
     "AsyncSession.upload_document"}

MultipartFns ==
    {"Session.upload_multipart_document", "AsyncSession.upload_multipart_document"}

UploadFns == SingleShotFns \cup MultipartFns

ImplOf(fn) == IF fn \in {"AsyncSession.upload_document",
                         "AsyncSession.upload_multipart_document"}
              THEN "AsyncSession" ELSE "Session"

\* The sizes of the documents: around every multiple of PART_SIZE.
FileSizes == { w * PART_SIZE + r : w \in 0..MaxWholeParts, r \in {0, 1, PART_SIZE - 1} }

\* latest_document_version.uuid, as the API returns it.
Uuids == {"uuid-a", "uuid-b"}

Min(a, b) == IF a < b THEN a ELSE b

\* A loop that stops one byte early.
InRangeShort(size, i) == i < size - 1

\* i is in range(0, file_size, PART_SIZE), i being a multiple of PART_SIZE
InRange(size, i) == i < size

\* An end offset that runs past the end of the file.
EndOffsetUnclipped(size, i) == i + PART_SIZE

\* end_offset = min(file_size, i + PART_SIZE)
EndOffset(size, i) == Min(size, i + PART_SIZE)

\* part = f.read(end_offset - start_offset): the bytes [pos, pos + n) of the
\* file, fewer at its end.
Read(size, pos, n) == <<pos, Min(size, pos + n)>>

\* for i in range(0, file_size, PART_SIZE): parts.append((start_offset,
\* end_offset, part)), the file being read from position pos on.
RECURSIVE SplitFrom(_, _, _)
SplitFrom(size, i, pos) ==
    IF ~InRange(size, i) THEN <<>>
    ELSE LET data == Read(size, pos, EndOffset(size, i) - i) IN
         <<[start_offset |-> i, end_offset |-> EndOffset(size, i), part |-> data]>>
            \o SplitFrom(size, i + PART_SIZE, data[2])

\* len(part[2])
PartLen(p) == p.part[2] - p.part[1]

\* multiparts: part_number from 1, content_length = len(part[2])
Manifest(ps) == [n \in 1..Len(ps) |-> [part_number |-> n, content_length |-> PartLen(ps[n])]]

\* The multiparts lists the API may return: any part numbers, in any order, the
\* put_url of each entry being its position in the list.
TargetLists(n) ==
    UNION { [1..len -> 0..(n + 1)] : len \in 0..MaxTargets }

\* parts[part_number - 1] is defined: Python accepts the indexes -len..len-1.
IndexOk(ps, part_number) == part_number - 1 >= -Len(ps) /\ part_number - 1 < Len(ps)

\* parts[part_number - 1], a negative index counting from the end.
PyIndex(ps, part_number) ==
    IF part_number - 1 >= 0 THEN ps[part_number] ELSE ps[Len(ps) + part_number]

\* What a PUT to a storage target can do: succeed, answer with a failure
\* status, or raise in the transport.
PutOutcomes == {"ok", "failure_status", "raise"}

\* The headers of a PUT: the put_headers of the API, and Content-Length in
\* AsyncSession.upload_document.
PutHeaders(fn) ==
    IF fn = "AsyncSession.upload_document"
    THEN {"put_headers", "Content-Length"} ELSE {"put_headers"}

\* The transport of a PUT: requests.put in Session.upload_document, a new
\* aiohttp.ClientSession() everywhere else; self.session, the OAuth2 session,
\* in no case.
PutTransport(fn) == IF fn = "Session.upload_document" THEN "requests" ELSE "aiohttp"

\* A loop that takes the returned targets from the end of the list.
TargetAtReversed(ts, i) == ts[Len(ts) + 1 - i]

\* for part in clio_document[...]["multiparts"]: the entry the loop is at.
TargetAt(ts, i) == ts[i]

\* A callback that is never invoked.
NoProgressUpdates(n) == progress

\* progress_update() has been called n more times.
ProgressUpdates(n) == progress + n

\* The caller's dict after AsyncSession.upload_document:
\* if params and params.get("fields"): ...; del params["fields"]
AfterUploadDocument(p) ==
    IF ~Falsy(p) /\ p.fields # Absent THEN [p EXCEPT !.fields = Absent] ELSE p

\* The body of the finalize PATCH.
FinalizeBody == [uuid |-> document.uuid, fully_uploaded |-> TRUE]

\* A loop over the targets that stops one short.
LoopDoneEarly == part_idx >= Len(document.multiparts)

\* for part in clio_document[...]["multiparts"] has run through the list.
LoopDone == part_idx > Len(document.multiparts)

InitUpload ==
    /\ upfn \in UploadFns
    /\ impl = ImplOf(upfn)
    /\ file_size \in FileSizes
    /\ upc = IF upfn \in MultipartFns THEN "read" ELSE "post"
    /\ parts = <<>>
    /\ document = [uuid |-> "", multiparts |-> <<>>]
    /\ part_idx = 0
    /\ posts = <<>> /\ puts = <<>> /\ patches = <<>>
    /\ progress = 0
    /\ outcome = "pending"
    /\ IdlePage
    /\ IdleExec
    /\ IdleApi
    /\ IdleConc
    /\ IdleTwin
    /\ held \in {Passes(p) : p \in IF upfn = "AsyncSession.upload_document"
                                   THEN CallerParams ELSE {NoParams}}

\* upload_multipart_document: read the file into parts, progress_update() per part.
UpReadParts ==
    /\ upc = "read"
    /\ parts' = SplitFrom(file_size, 0, 0)
    /\ progress' = ProgressUpdates(Len(parts'))
    /\ upc' = "post"
    /\ UNCHANGED <<impl, upfn, file_size, document, part_idx, posts, puts, patches,
                   outcome, notUpload>>

\* clio_document = post_resource(...): it raises (or its answer lacks the keys
\* read next), or it returns a document with a uuid and the upload targets.
UpPost ==
    /\ upc = "post"
    /\ posts' = Append(posts, IF upfn \in MultipartFns THEN Manifest(parts) ELSE <<>>)
    /\ \/ /\ outcome' = "raised"
          /\ upc' = "done"
          /\ UNCHANGED <<document, part_idx>>
       \/ \E u \in Uuids :
          \E ts \in IF upfn \in MultipartFns THEN TargetLists(Len(parts)) ELSE {<<>>} :
            /\ document' = [uuid |-> u, multiparts |-> ts]
            /\ part_idx' = 1
            /\ upc' = "put"
            /\ UNCHANGED outcome
    /\ UNCHANGED <<impl, upfn, file_size, parts, puts, patches, progress, notUpload>>

\* upload_document: PUT the whole file to put_url; the response is not looked at.
UpPutWhole ==
    /\ upc = "put"
    /\ upfn \in SingleShotFns
    /\ \E o \in PutOutcomes :
        /\ puts' = Append(puts, [target |-> 0, part_number |-> 0,
                                 data |-> <<0, file_size>>,
                                 headers |-> PutHeaders(upfn),
                                 transport |-> PutTransport(upfn), outcome |-> o])
        /\ IF o = "raise"
           THEN outcome' = "raised" /\ upc' = "done" /\ UNCHANGED progress
           ELSE /\ upc' = "patch"
                /\ progress' = IF upfn = "Session.upload_document_async"
                               THEN ProgressUpdates(1) ELSE progress
                /\ UNCHANGED outcome
    /\ UNCHANGED <<impl, upfn, file_size, parts, document, part_idx, posts, patches,
                   notUpload>>

\* upload_multipart_document: the next entry of the returned multiparts list:
\* data_part = parts[part_number - 1][2], PUT it to put_url, progress_update().
UpPutPart ==
    /\ upc = "put"
    /\ upfn \in MultipartFns
    /\ ~LoopDone
    /\ LET n == TargetAt(document.multiparts, part_idx) IN
         IF ~IndexOk(parts, n)
         THEN /\ outcome' = "raised"
              /\ upc' = "done"
              /\ UNCHANGED <<puts, progress, part_idx>>
         ELSE \E o \in PutOutcomes :
                /\ puts' = Append(puts, [target |-> part_idx, part_number |-> n,
                                         data |-> PyIndex(parts, n).part,
                                         headers |-> PutHeaders(upfn),
                                         transport |-> PutTransport(upfn),
                                         outcome |-> o])
                /\ IF o = "raise"
                   THEN outcome' = "raised" /\ upc' = "done"
                        /\ UNCHANGED <<progress, part_idx>>
                   ELSE /\ progress' = ProgressUpdates(1)
                        /\ part_idx' = part_idx + 1
                        /\ UNCHANGED <<outcome, upc>>
    /\ UNCHANGED <<impl, upfn, file_size, parts, document, posts, patches, notUpload>>

\* The finalize PATCH can go out.
FinalizeReady ==
    IF upfn \in MultipartFns THEN upc = "put" /\ LoopDone ELSE upc = "patch"

\* patch_resp = patch_resource(..., {"uuid": ..., "fully_uploaded": True})
UpPatch ==
    /\ FinalizeReady
    /\ patches' = Append(patches, FinalizeBody)
    /\ outcome' \in {"returned", "raised"}
    /\ upc' = "done"
    /\ UNCHANGED <<impl, upfn, file_size, parts, document, part_idx, posts, puts,
                   progress, notPatch>>
    /\ held' = IF upfn = "AsyncSession.upload_document"
               THEN [held EXCEPT !.now = AfterUploadDocument(held.now)]
               ELSE held

NextUpload ==
    \/ UpReadParts
    \/ UpPost
    \/ UpPutWhole
    \/ UpPutPart
    \/ UpPatch

SpecUpload == InitUpload /\ [][NextUpload]_vars

(***************************************************************************)
(* Upload claims                                                           *)
(***************************************************************************)
\* C7: if the PUT of a part fails, by an exception of the transport or by a
\* failure status of the storage target, the finalize PATCH is never sent, no
\* later part is PUT, and the upload raises.
C7_PutFailureAborts ==
    \A i \in 1..Len(puts) :
        puts[i].outcome # "ok" =>
            /\ patches = <<>>
            /\ Len(puts) = i
            /\ upc = "done" => outcome = "raised"

\* The creation POST returned one target for each part of the manifest.
OneTargetPerPart ==
    /\ document.uuid \in Uuids
    /\ Len(document.multiparts) = Len(parts)
    /\ {document.multiparts[i] : i \in 1..Len(document.multiparts)} = 1..Len(parts)

AllPutsOk == \A i \in 1..Len(puts) : puts[i].outcome = "ok"

\* C8: in upload_multipart_document, when the POST returned one target per
\* manifest part and every PUT succeeded, the finalize PATCH is sent exactly
\* once, after the last PUT, with fully_uploaded true and the uuid of the POST,
\* and each target is PUT exactly once.
C8_FinalizeOnceAfterAllPuts ==
    (upfn \in MultipartFns /\ OneTargetPerPart /\ AllPutsOk) =>
        /\ \A i \in 1..Len(puts) : puts[i].target = i
        /\ Len(puts) <= Len(parts)
        /\ Len(patches) <= 1
        /\ patches # <<>> =>
                /\ Len(puts) = Len(parts)
                /\ patches[1] = [uuid |-> document.uuid, fully_uploaded |-> TRUE]
        /\ upc = "done" => (Len(patches) = 1 /\ Len(posts) = 1)

C8_Witness ==
    /\ upfn \in MultipartFns
    /\ OneTargetPerPart
    /\ AllPutsOk
    /\ Len(parts) = 3
    /\ document.multiparts = <<2, 3, 1>>
    /\ Len(puts) = 3
    /\ Len(patches) = 1
    /\ outcome = "returned"

\* The content lengths the manifest declares.
PartSizes == [n \in 1..Len(parts) |-> PartLen(parts[n])]

WholeFilePut == Len(puts) = 1 /\ puts[1].part_number = 0 /\ puts[1].data = <<0, file_size>>

PartUploaded(k) ==
    \E i \in 1..Len(puts) : puts[i].outcome = "ok" /\ puts[i].data = parts[k].part

\* C22: in upload_multipart_document, whatever target list the API returns
\* (reordered, with missing, repeated or unknown part numbers), the finalize
\* PATCH is sent only after every part of the local manifest was PUT with success.
C22_FinalizeNeedsAllParts ==
    (upfn \in MultipartFns /\ patches # <<>>) =>
        \A k \in 1..Len(parts) : PartUploaded(k)

\* C23: in upload_multipart_document every PUT sends the bytes of the local part
\* k to the target the API returned for part_number k, with the headers the API
\* supplied for that part and no others, through a new unauthenticated transport.
C23_PutSendsAssignedPart ==
    upfn \in MultipartFns =>
        \A i \in 1..Len(puts) :
            /\ puts[i].part_number \in 1..Len(parts)
            /\ puts[i].data = parts[puts[i].part_number].part
            /\ document.multiparts[puts[i].target] = puts[i].part_number
            /\ puts[i].headers = {"put_headers"}
            /\ puts[i].transport = "aiohttp"

CeilDiv(a, b) == (a + b - 1) \div b

\* C25: upload_multipart_document splits a file of S bytes into ceil(S / PART_SIZE)
\* parts, part i being the bytes [(i-1)*PART_SIZE, min(S, i*PART_SIZE)): the
\* ranges are contiguous and cover [0, S), every part but possibly the last is
\* PART_SIZE long, no part is empty, and the manifest lists part_number i with
\* the length of part i.
C25_SplitCoversFile ==
    (upfn \in MultipartFns /\ upc # "read") =>
        /\ Len(parts) = CeilDiv(file_size, PART_SIZE)
        /\ \A i \in 1..Len(parts) :
                /\ parts[i].start_offset = (i - 1) * PART_SIZE
                /\ parts[i].end_offset = Min(file_size, i * PART_SIZE)
                /\ parts[i].part = <<parts[i].start_offset, parts[i].end_offset>>
                /\ PartLen(parts[i]) > 0
                /\ PartLen(parts[i]) <= PART_SIZE
                /\ i < Len(parts) =>
                        /\ PartLen(parts[i]) = PART_SIZE
                        /\ parts[i].end_offset = parts[i + 1].start_offset
        /\ Len(parts) > 0 =>
                (parts[1].start_offset = 0 /\ parts[Len(parts)].end_offset = file_size)
        /\ posts # <<>> =>
                posts[1] = [n \in 1..Len(parts) |->
                                [part_number |-> n,
                                 content_length |-> parts[n].end_offset - parts[n].start_offset]]

C25_Witness ==
    /\ upfn \in MultipartFns
    /\ file_size = MaxWholeParts * PART_SIZE + 1
    /\ Len(parts) = MaxWholeParts + 1
    /\ PartLen(parts[Len(parts)]) = 1
    /\ Len(posts) = 1
    /\ Len(posts[1]) = MaxWholeParts + 1

\* The single-shot upload_document of either client.
UploadDocumentFns == {"Session.upload_document", "AsyncSession.upload_document"}

\* C34: upload_document issues, in this order, one document-creation POST, one
\* PUT of the whole file to the put_url of the POST's answer, with a
\* Content-Length header and the headers the API supplied, and one finalize PATCH
\* with fully_uploaded true and the version uuid of the POST's answer.
C34_SingleShotSequence ==
    upfn \in UploadDocumentFns =>
        /\ Len(posts) <= 1 /\ Len(puts) <= 1 /\ Len(patches) <= 1
        /\ puts # <<>> => Len(posts) = 1
        /\ patches # <<>> => Len(puts) = 1
        /\ \A i \in 1..Len(puts) :
                /\ puts[i].data = <<0, file_size>>
                /\ puts[i].headers = {"Content-Length", "put_headers"}
        /\ \A i \in 1..Len(patches) :
                patches[i] = [uuid |-> document.uuid, fully_uploaded |-> TRUE]
        /\ (upc = "done" /\ outcome = "returned") => Len(patches) = 1

\* C35: in a successful upload_multipart_document of N parts (the API returned
\* one target per part and every PUT succeeded) the progress callback is invoked
\* once per part read, all N times before the document-creation POST, and once
\* after each part PUT, all before the finalize PATCH: 2N times by the time the
\* PATCH goes out, and no more after it.
C35_ProgressTwicePerPart ==
    upfn \in MultipartFns =>
        /\ upc = "read" => progress = 0
        /\ upc = "post" => (posts = <<>> /\ progress = Len(parts))
        /\ (OneTargetPerPart /\ AllPutsOk) =>
                /\ progress = Len(parts) + Len(puts)
                /\ patches # <<>> => progress = 2 * Len(parts)

C35_Witness ==
    /\ upfn \in MultipartFns
    /\ OneTargetPerPart
    /\ AllPutsOk
    /\ Len(parts) = MaxWholeParts + 1
    /\ Len(puts) = Len(parts)
    /\ Len(patches) = 1
    /\ outcome = "returned"
    /\ progress = 2 * (MaxWholeParts + 1)

(***************************************************************************)
(* CONSTRUCTION, URLS AND THE PER-RESOURCE METHODS                         *)
(***************************************************************************)
\* The length of the longest region string tried.
MaxRegionLen == 2

CLIO_BASE_URL_US == "https://app.clio.com"
CLIO_BASE_URL_AU == "https://au.app.clio.com"
CLIO_BASE_URL_CA == "https://ca.app.clio.com"
CLIO_BASE_URL_EU == "https://eu.app.clio.com"

\* A string built by an f-string or by + is the sequence of its pieces.
\* CLIO_API_BASE_URL_xx = f"{CLIO_BASE_URL_xx}/api/v4"
ApiBase(base) == <<base, "/api/v4">>

\* self.token_endpoint = self.base_url + CLIO_API_TOKEN_ENDPOINT
TokenEndpoint(base) == <<base, "/oauth/token">>

\* The letters of the region names, each in lower or in upper case.
Letters == {"u", "s", "c", "a", "e"}

Chars == [letter : Letters, upper : BOOLEAN]

Regions == UNION { [1..n -> Chars] : n \in 0..MaxRegionLen }

\* A string literal written in lower case.
Str(w) == [i \in 1..Len(w) |-> [letter |-> w[i], upper |-> FALSE]]

\* A constructor that compares the region as it was given.
LowerAsGiven(rg) == rg

\* region = region.lower()
Lower(rg) == [i \in 1..Len(rg) |-> [letter |-> rg[i].letter, upper |-> FALSE]]

\* The if/elif chain of __init__ on the lowercased region.
BaseUrlOf(rg) ==
    LET r == Lower(rg) IN
    IF r = Str(<<"u", "s">>) THEN CLIO_BASE_URL_US
    ELSE IF r = Str(<<"c", "a">>) THEN CLIO_BASE_URL_CA
    ELSE IF r = Str(<<"a", "u">>) THEN CLIO_BASE_URL_AU
    ELSE IF r = Str(<<"e", "u">>) THEN CLIO_BASE_URL_EU
    ELSE CLIO_BASE_URL_US

\* return f"{self.api_base_url}/{path}.json"
MakeUrlOf(path) == api_base_url \o <<"/">> \o path \o <<".json">>

Ids == {"1", "2"}

Kwargs == {NoKwargs, [fields |-> "id,name"]}

\* What a generic operation hands back.
OpResults == {"value_a", "value_b"}

\* Per-resource methods of Session: the generic operation each one calls, its
\* resource path (prefix, then the id if it takes one, then suffix), whether it
\* passes a json body, and the object it calls make_url on.
ConvenienceMethods ==
    { [name |-> "get_contact", op |-> "get_resource", prefix |-> "contacts/",
       takes_id |-> TRUE, suffix |-> "", json |-> FALSE, via |-> "self"],
      [name |-> "get_contacts", op |-> "get_paginated_resource", prefix |-> "contacts",
       takes_id |-> FALSE, suffix |-> "", json |-> FALSE, via |-> "self"],
      [name |-> "post_contact", op |-> "post_resource", prefix |-> "contacts",
       takes_id |-> FALSE, suffix |-> "", json |-> TRUE, via |-> "Session"],
      [name |-> "patch_contact", op |-> "patch_resource", prefix |-> "contacts/",
       takes_id |-> TRUE, suffix |-> "", json |-> TRUE, via |-> "Session"],
      [name |-> "delete_contact", op |-> "delete_resource", prefix |-> "contacts/",
       takes_id |-> TRUE, suffix |-> "", json |-> FALSE, via |-> "Session"],
      [name |-> "get_user", op |-> "get_resource", prefix |-> "users/",
       takes_id |-> TRUE, suffix |-> "", json |-> FALSE, via |-> "self"],
      [name |-> "get_users", op |-> "get_paginated_resource", prefix |-> "users",
       takes_id |-> FALSE, suffix |-> "", json |-> FALSE, via |-> "self"],
      [name |-> "get_document", op |-> "get_resource", prefix |-> "documents/",
       takes_id |-> TRUE, suffix |-> "", json |-> FALSE, via |-> "self"],
      [name |-> "get_documents", op |-> "get_paginated_resource", prefix |-> "documents",
       takes_id |-> FALSE, suffix |-> "", json |-> FALSE, via |-> "self"],
      [name |-> "download_document", op |-> "get_resource", prefix |-> "documents/",
       takes_id |-> TRUE, suffix |-> "/download", json |-> FALSE, via |-> "self"],
      [name |-> "get_matter", op |-> "get_resource", prefix |-> "matters/",
       takes_id |-> TRUE, suffix |-> "", json |-> FALSE, via |-> "self"],
      [name |-> "get_matters", op |-> "get_paginated_resource", prefix |-> "matters",
       takes_id |-> FALSE, suffix |-> "", json |-> FALSE, via |-> "self"],
      [name |-> "update_webhook", op |-> "patch_resource", prefix |-> "webhooks/",
       takes_id |-> TRUE, suffix |-> "", json |-> TRUE, via |-> "self"],
      [name |-> "delete_webhook", op |-> "delete_resource", prefix |-> "webhooks/",
       takes_id |-> TRUE, suffix |-> "", json |-> FALSE, via |-> "self"] }

Method(name) == CHOOSE m \in ConvenienceMethods : m.name = name

\* The path a method formats: "contacts", f"contacts/{id}", f"documents/{id}/download".
PathOf(m, id) ==
    IF ~m.takes_id THEN <<m.prefix>>
    ELSE IF m.suffix = "" THEN <<m.prefix, id>>
    ELSE <<m.prefix, id, m.suffix>>

\* The paths handed to make_url directly.
Paths == {<<"who_am_i">>, <<"contacts">>, <<"contacts/", "1">>,
          <<"documents/", "2", "/download">>}

\* self.make_url(path) binds path; Session.make_url(path) binds the string to
\* self and leaves path without a value, which is a TypeError.
MakeUrlBinds(via) == via = "self"

InitApi ==
    /\ impl \in Impls
    /\ region \in Regions
    /\ base_url = "" /\ api_base_url = <<>> /\ token_endpoint = <<>>
    /\ apc = "new" /\ mpath = <<>> /\ made = <<>>
    /\ cm = "" /\ cargs = NoArgs /\ opreturn = "" /\ calls = <<>> /\ cresult = NoResult
    /\ IdlePage
    /\ IdleExec
    /\ IdleUpload
    /\ IdleConc
    /\ IdleTwin
    /\ IdleHeld

\* __init__(token, client_id, client_secret, region=...)
Construct ==
    /\ apc = "new"
    /\ base_url' = BaseUrlOf(region)
    /\ api_base_url' = ApiBase(BaseUrlOf(region))
    /\ token_endpoint' = TokenEndpoint(BaseUrlOf(region))
    /\ apc' = "ready"
    /\ UNCHANGED <<impl, region, mpath, made, cm, cargs, opreturn, calls, cresult, notApi>>

\* make_url(path). The variables describe the last call made on the session.
MakeUrl ==
    /\ apc = "ready"
    /\ \E path \in Paths :
            /\ mpath' = path
            /\ made' = MakeUrlOf(path)
    /\ cm' = "" /\ cargs' = NoArgs /\ opreturn' = "" /\ calls' = <<>> /\ cresult' = NoResult
    /\ UNCHANGED <<impl, region, base_url, api_base_url, token_endpoint, apc, notApi>>

\* Session: a per-resource method: url = make_url(path), then
\* return self.<generic operation>(url, [json=json,] **kwargs)
CallConvenience ==
    /\ impl = "Session"
    /\ apc = "ready"
    /\ \E m \in ConvenienceMethods, id \in Ids, kw \in Kwargs, ret \in OpResults :
            /\ ~m.takes_id => id = "1"
            /\ cm' = m.name
            /\ cargs' = [id |-> IF m.takes_id THEN id ELSE "", kwargs |-> kw]
            /\ IF MakeUrlBinds(m.via)
               THEN /\ calls' = <<[op |-> m.op, url |-> MakeUrlOf(PathOf(m, id)),
                                   json |-> m.json, kwargs |-> kw]>>
                    /\ opreturn' = ret
                    /\ cresult' = [kind |-> "value", value |-> ret, exc |-> ""]
               ELSE /\ calls' = <<>>
                    /\ opreturn' = ""
                    /\ cresult' = [kind |-> "raise", value |-> "", exc |-> "TypeError"]
    /\ mpath' = <<>> /\ made' = <<>>
    /\ UNCHANGED <<impl, region, base_url, api_base_url, token_endpoint, apc, notApi>>

NextApi ==
    \/ Construct
    \/ MakeUrl
    \/ CallConvenience

SpecApi == InitApi /\ [][NextApi]_vars

(***************************************************************************)
(* Construction and URL claims                                             *)
(***************************************************************************)
\* The region string spells w, in whatever case.
Spells(rg, w) == Len(rg) = Len(w) /\ \A i \in 1..Len(w) : rg[i].letter = w[i]

\* The base URL of a region, matched without regard to case; US for any other.
RegionBase(rg) ==
    IF Spells(rg, <<"c", "a">>) THEN "https://ca.app.clio.com"
    ELSE IF Spells(rg, <<"a", "u">>) THEN "https://au.app.clio.com"
    ELSE IF Spells(rg, <<"e", "u">>) THEN "https://eu.app.clio.com"
    ELSE "https://app.clio.com"

\* C19: the constructor maps the region without regard to case: us, ca, au and
\* eu select their own base URL, any other region the US one; make_url(path)
\* then returns "<api base url>/<path>.json" for every path.
C19_RegionAndMakeUrl ==
    apc = "ready" =>
        /\ base_url = RegionBase(region)
        /\ api_base_url = <<RegionBase(region), "/api/v4">>
        /\ made # <<>> =>
                made = <<RegionBase(region), "/api/v4", "/">> \o mpath \o <<".json">>

\* Region "Ca": make_url("contacts/1") gave the Canadian URL.
C19_Witness ==
    /\ apc = "ready"
    /\ region = <<[letter |-> "c", upper |-> TRUE], [letter |-> "a", upper |-> FALSE]>>
    /\ mpath = <<"contacts/", "1">>
    /\ made = <<"https://ca.app.clio.com", "/api/v4", "/", "contacts/", "1", ".json">>

\* C20: every per-resource method of Session makes exactly one call of the
\* matching generic operation, with the URL make_url(<resource path>) and the
\* caller's keyword options unchanged, and returns what that call returned.
C20_ConvenienceDelegates ==
    cm # "" =>
        /\ calls = <<[op |-> Method(cm).op,
                      url |-> MakeUrlOf(PathOf(Method(cm), cargs.id)),
                      json |-> Method(cm).json,
                      kwargs |-> cargs.kwargs]>>
        /\ cresult = [kind |-> "value", value |-> opreturn, exc |-> ""]

(***************************************************************************)
(* SEVERAL OPERATIONS ON ONE CLIENT                                        *)
(*                                                                         *)
(* Operations running at the same time on one client share                 *)
(* self.ratelimit_limit and self.ratelimit_remaining.  On a Session they   *)
(* run in threads, and a thread can be suspended between any two           *)
(* statements of update_ratelimits.  On an AsyncSession they are           *)
(* coroutines of one event loop, which gives way only at an await, and     *)
(* update_ratelimits has none.                                             *)
(***************************************************************************)

MaxOps == 2

Ops == 1..MaxOps

\* The operation has not been called yet.
NotCalled == [at |-> "idle", limit |-> Absent, remaining |-> Absent]

InitConc ==
    /\ impl \in Impls
    /\ ratelimit \in BOOLEAN
    /\ raise_for_status = FALSE
    /\ ratelimit_limit = Inf /\ ratelimit_remaining = Inf
    /\ method = "GET" /\ pc = "idle" /\ resp = NoResp
    /\ trail = <<>> /\ sleeps = <<>> /\ sent = 0 /\ s3gets = 0 /\ depth = 0
    /\ result = Pending
    /\ ops = [o \in Ops |-> NotCalled]
    /\ seen = <<Inf, Inf>>
    /\ IdlePage
    /\ IdleUpload
    /\ IdleApi
    /\ IdleTwin
    /\ IdleHeld

\* Operation o has the response it ends with and is about to call
\* self.update_ratelimits(resp).
ConcReceive(o) ==
    /\ ops[o].at = "idle"
    /\ \E h \in RateHeaders :
        ops' = [ops EXCEPT ![o] = [at |-> "update", limit |-> h[1], remaining |-> h[2]]]
    /\ UNCHANGED <<impl, bvars, seen, notConc>>

\* update_ratelimits with self.ratelimit off: nothing is assigned.
ConcSkip(o) ==
    /\ ops[o].at = "update"
    /\ ~ratelimit
    /\ ops' = [ops EXCEPT ![o].at = "done"]
    /\ UNCHANGED <<impl, bvars, seen, notConc>>

\* Session: self.ratelimit_limit = response.headers.get(...)
ConcWriteLimit(o) ==
    /\ impl = "Session"
    /\ ops[o].at = "update"
    /\ ratelimit
    /\ ratelimit_limit' = ops[o].limit
    /\ ops' = [ops EXCEPT ![o].at = "limit_written"]
    /\ UNCHANGED <<impl, ratelimit_remaining, seen, notConc>>

\* Session: self.ratelimit_remaining = response.headers.get(...)
ConcWriteRemaining(o) ==
    /\ impl = "Session"
    /\ ops[o].at = "limit_written"
    /\ ratelimit_remaining' = ops[o].remaining
    /\ ops' = [ops EXCEPT ![o].at = "done"]
    /\ UNCHANGED <<impl, ratelimit_limit, seen, notConc>>

\* AsyncSession: both assignments, with no await between them.
ConcUpdate(o) ==
    /\ impl = "AsyncSession"
    /\ ops[o].at = "update"
    /\ ratelimit
    /\ ratelimit_limit' = ops[o].limit
    /\ ratelimit_remaining' = ops[o].remaining
    /\ ops' = [ops EXCEPT ![o].at = "done"]
    /\ UNCHANGED <<impl, seen, notConc>>

\* A reader takes both counters of the client at one instant.
ConcRead ==
    /\ seen' = <<ratelimit_limit, ratelimit_remaining>>
    /\ UNCHANGED <<impl, bvars, ops, notConc>>

NextConc ==
    \/ \E o \in Ops : ConcReceive(o)
    \/ \E o \in Ops : ConcSkip(o)
    \/ \E o \in Ops : ConcWriteLimit(o)
    \/ \E o \in Ops : ConcWriteRemaining(o)
    \/ \E o \in Ops : ConcUpdate(o)
    \/ ConcRead

SpecConc == InitConc /\ [][NextConc]_vars

\* The header pairs of the responses received so far.
Received == {<<ops[o].limit, ops[o].remaining>> : o \in {q \in Ops : ops[q].at # "idle"}}

\* The reader saw the limit of one response with the remaining of another one.
Torn ==
    /\ seen \notin Received
    /\ \E a, b \in Received : a # b /\ seen = <<a[1], b[2]>>

\* C27: with several operations running at the same time on one client, no
\* reader ever sees the limit taken from one response together with the
\* remaining taken from a different response.
C27_BudgetUpdateAtomic == ~Torn

(***************************************************************************)
(* THE SAME OPERATION ON BOTH CLIENTS                                      *)
(*                                                                         *)
(* An operation runs on a Session; then the same operation, with the same  *)
(* flags, runs on a new AsyncSession against a server that answers its     *)
(* k-th request as it answered the k-th request of the Session.            *)
(***************************************************************************)

\* The steps of trail that send a request through the authenticated transport.
RequestSteps == {"call", "call_failed", "retry", "retry_failed",
                 "legacy_retry", "legacy_retry_failed"}

\* The steps among them on which the transport raised.
FailedSteps == {"call_failed", "retry_failed", "legacy_retry_failed"}

IsRequest(e) == e.step \in RequestSteps

\* The requests of an operation, in order, each with what came back.
Requests(t) == SelectSeq(t, IsRequest)

\* What the operation that just ended did.
Run == [resp |-> resp, trail |-> trail, sleeps |-> sleeps, sent |-> sent,
        s3gets |-> s3gets, result |-> result, budget |-> Budget]

InitTwin ==
    /\ impl = "Session"
    /\ ratelimit \in BOOLEAN
    /\ raise_for_status \in BOOLEAN
    /\ ratelimit_limit = Inf /\ ratelimit_remaining = Inf
    /\ method \in Methods
    /\ pc = "call" /\ resp = NoResp
    /\ trail = <<>> /\ sleeps = <<>> /\ sent = 0 /\ s3gets = 0 /\ depth = 0
    /\ result = Pending
    /\ twin = [phase |-> 1, run |-> NoRun]
    /\ IdlePage
    /\ IdleUpload
    /\ IdleApi
    /\ IdleConc
    /\ IdleHeld

\* The operation on the Session: the wrapper of session.py.
TwinSession ==
    /\ twin.phase = 1
    /\ impl = "Session"
    /\ (Call \/ Backoff429 \/ Retry429 \/ SyncFinish)

\* The operation of the Session is over: the same call is made on an
\* AsyncSession constructed with the same flags.
TwinSwitch ==
    /\ twin.phase = 1
    /\ pc = "done"
    /\ twin' = [phase |-> 2, run |-> Run]
    /\ impl' = "AsyncSession"
    /\ ratelimit_limit' = Inf /\ ratelimit_remaining' = Inf
    /\ pc' = "call" /\ resp' = NoResp
    /\ trail' = <<>> /\ sleeps' = <<>> /\ sent' = 0 /\ s3gets' = 0 /\ depth' = 0
    /\ result' = Pending
    /\ UNCHANGED <<cvars, method, pvars, uvars, avars, kvars, hvars>>

\* The server answers the request just sent as it answered the request of the
\* same rank of the Session: the same failure of the transport, or the same
\* response (the last response of the Session is known whole; of an earlier one,
\* a 429 it backed off on, the status, the Retry-After and what the wrappers
\* look for in it).
SameServer ==
    (sent' = sent + 1 /\ sent' <= twin.run.sent) =>
        LET mine == trail'[Len(trail')]
            theirs == Requests(twin.run.trail)[sent']
        IN  /\ (mine.step \in FailedSteps) = (theirs.step \in FailedSteps)
            /\ mine.step \notin FailedSteps =>
                /\ mine.status = theirs.status
                /\ mine.marker = theirs.marker
                /\ mine.redirect = theirs.redirect
                /\ sent' = twin.run.sent => resp' = twin.run.resp
                /\ sent' < twin.run.sent =>
                        /\ IsIntString(resp'.retry_after)
                        /\ RetryDelay(resp') = twin.run.sleeps[sent']

\* The operation on the AsyncSession: the wrapper of async_session.py.
TwinAsync ==
    /\ twin.phase = 2
    /\ impl = "AsyncSession"
    /\ \/ Call
       \/ Backoff429
       \/ Retry429
       \/ AsyncS3Fetch
       \/ AsyncReissue
       \/ AsyncLegacyBackoff
       \/ AsyncLegacyRetry
       \/ AsyncFinish
    /\ SameServer

NextTwin ==
    \/ TwinSession
    \/ TwinSwitch
    \/ TwinAsync

SpecTwin == InitTwin /\ [][NextTwin]_vars

\* The errors of the two transports that mean the same: requests raises
\* HTTPError where httpx raises HTTPStatusError.
ErrorClass(e) == IF e \in {"HTTPError", "HTTPStatusError"} THEN "status_error" ELSE e

\* The same result or the same error.
SameResult(a, b) ==
    /\ a.kind = b.kind
    /\ ErrorClass(a.exc) = ErrorClass(b.exc)
    /\ a.status = b.status

\* C36: with the same flags and the same server responses, an operation of
\* AsyncSession shows the observable behaviour of the same operation of Session:
\* as many requests sent, the same waits, the same result or error, the same
\* RateLimitBudget afterwards.
C36_SameObservableBehaviour ==
    (twin.phase = 2 /\ pc = "done") =>
        /\ sent + s3gets = twin.run.sent + twin.run.s3gets
        /\ sleeps = twin.run.sleeps
        /\ SameResult(result, twin.run.result)
        /\ Budget = twin.run.budget

====
